---------------------------- MODULE Spec2Model ----------------------------
(***************************************************************************)
(* Model of msticpy/data/drivers/elastic_driver.py: the ElasticDriver      *)
(* connector adapter.                                                      *)
(*                                                                         *)
(* A Python dict is a TLA+ function whose DOMAIN is its key set.  The      *)
(* class attribute ElasticDriver._CONNECT_DEFAULTS is ONE dict object,     *)
(* shared by every instance; _get_connect_args binds cs_dict to that same  *)
(* object (no copy) and updates it in place, so the variable               *)
(* _CONNECT_DEFAULTS below is the object both names refer to.              *)
(***************************************************************************)
EXTENDS Integers, FiniteSets, Sequences, TLC

VARIABLES
    _CONNECT_DEFAULTS,  \* the class-level dict object (shared by all instances)
    settings,           \* the settings store: args of DataProviders/Elastic
    service,            \* self.service, per instance
    _connected,         \* self._connected, per instance
    _loaded,            \* self._loaded, per instance
    call,               \* the last connect()/query() call and how it ended
    connect_ok,         \* the instances on which a connect() call has returned
    fmt                 \* the last _format_datetime call: its input and output

vars ==
    <<_CONNECT_DEFAULTS, settings, service, _connected, _loaded, call,
      connect_ok, fmt>>

---------------------------------------------------------------------------
(* Bounds of the model *)

\* the largest number of keyword overrides one connect() call passes
MaxKwargs == 2

---------------------------------------------------------------------------
(* Dicts *)

EmptyDict == <<>>

\* dict.update: the keys of e are added to d, e's values replacing d's
Update(d, e) ==
    [k \in (DOMAIN d) \cup (DOMAIN e) |-> IF k \in DOMAIN e THEN e[k] ELSE d[k]]

\* d restricted to the keys in K
Restrict(d, K) == [k \in (DOMAIN d) \cap K |-> d[k]]

---------------------------------------------------------------------------
(* Module and class constants *)

None == "None"

\* the keys of ELASTIC_CONNECT_ARGS (its values are help texts)
ELASTIC_CONNECT_ARGS ==
    {"host", "port", "use_ssl", "verify_certs", "username", "password"}

_ELASTIC_REQD_ARGS == {"host", "username", "password"}

DefaultPort == 9200

\* the value of _CONNECT_DEFAULTS as the class body writes it
ClassBodyDefaults ==
    [port |-> DefaultPort, use_ssl |-> TRUE, verify_certs |-> TRUE]

---------------------------------------------------------------------------
(* Inputs *)

Instances == {"d1", "d2"}

\* what a settings store may hold for a key, and what a caller may pass
StoredVal == [host |-> "h", port |-> 9400, username |-> "u", password |-> "p"]
KwargVal ==
    [host |-> "k", port |-> 9300, username |-> "u", password |-> "p",
     timeout |-> 30]

\* a stored profile holds the two credentials together or neither
StoredKeySets ==
    {H \cup P \cup C : H \in {{}, {"host"}}, P \in {{}, {"port"}},
                       C \in {{}, {"username", "password"}}}

StoredSettings == {Restrict(StoredVal, K) : K \in StoredKeySets}

Overrides ==
    {Restrict(KwargVal, K) :
        K \in {S \in SUBSET DOMAIN KwargVal : Cardinality(S) <= MaxKwargs}}

Queries == {"q1", "q2"}

---------------------------------------------------------------------------
(* check_kwargs of common.utility: rejects a name outside the allow-list *)

CheckKwargs(supplied_args, legal_args) == DOMAIN supplied_args \subseteq legal_args

---------------------------------------------------------------------------
(* ElasticDriver._get_config_settings: the args of the stored section, read *)
(* from the store at every call                                             *)

_get_config_settings == settings

(* ElasticDriver._get_connect_args, lines 115-117: cs_dict IS the class    *)
(* dict; the two updates change it in place                                 *)

MergeStoredOverKwargs(defaults, stored, kwargs) ==
    Update(Update(defaults, kwargs), stored)

Consolidate(defaults, stored, kwargs) ==
    Update(Update(defaults, stored), kwargs)

(* lines 118-130: the allow-list check, then the required keys *)

MissingArgs(cs_dict) == _ELASTIC_REQD_ARGS \ DOMAIN cs_dict

ValidateMissingFirst(cs_dict) ==
    IF MissingArgs(cs_dict) # {}
    THEN [result |-> "MsticpyUserConfigError", missing |-> MissingArgs(cs_dict)]
    ELSE IF ~CheckKwargs(cs_dict, ELASTIC_CONNECT_ARGS)
    THEN [result |-> "UnrecognizedArgumentError", missing |-> {}]
    ELSE [result |-> "ok", missing |-> {}]

Validate(cs_dict) ==
    IF ~CheckKwargs(cs_dict, ELASTIC_CONNECT_ARGS)
    THEN [result |-> "UnrecognizedArgumentError", missing |-> {}]
    ELSE IF MissingArgs(cs_dict) # {}
    THEN [result |-> "MsticpyUserConfigError", missing |-> MissingArgs(cs_dict)]
    ELSE [result |-> "ok", missing |-> {}]

\* the whole of _get_connect_args: the dict it leaves behind and how it ends
_get_connect_args(defaults, stored, kwargs) ==
    LET cs_dict == Consolidate(defaults, stored, kwargs)
        v == Validate(cs_dict)
    IN  [cs_dict |-> cs_dict, result |-> v.result, missing |-> v.missing]

---------------------------------------------------------------------------
(* ElasticDriver._format_datetime: f'"{date_time.isoformat(sep=" ")}"'.     *)
(* A string is the sequence of its characters.  A date-time is a record of *)
(* its fields; utcoffset is <<>> for a naive value (tzinfo None) and        *)
(* <<m>> for an aware one, m the offset in whole minutes.                  *)

DigitChars == <<"0", "1", "2", "3", "4", "5", "6", "7", "8", "9">>

RECURSIVE Pow10(_)
Pow10(n) == IF n = 0 THEN 1 ELSE 10 * Pow10(n - 1)

\* "%0<w>d" % n, for 0 <= n < 10^w
ZeroPad(n, w) == [i \in 1..w |-> DigitChars[((n \div Pow10(w - i)) % 10) + 1]]

\* datetime._format_time with timespec "auto": the fraction is written only
\* when the microsecond field is not zero
FormatTime(hh, mm, ss, us) ==
    ZeroPad(hh, 2) \o <<":">> \o ZeroPad(mm, 2) \o <<":">> \o ZeroPad(ss, 2)
    \o (IF us # 0 THEN <<".">> \o ZeroPad(us, 6) ELSE <<>>)

\* datetime._format_offset: nothing for a naive value, else the sign and HH:MM
FormatOffset(off) ==
    IF off = <<>> THEN <<>>
    ELSE LET m == IF off[1] < 0 THEN -off[1] ELSE off[1]
         IN  <<IF off[1] < 0 THEN "-" ELSE "+">>
             \o ZeroPad(m \div 60, 2) \o <<":">> \o ZeroPad(m % 60, 2)

\* datetime.isoformat(sep)
isoformat(d, sep) ==
    ZeroPad(d.year, 4) \o <<"-">> \o ZeroPad(d.month, 2) \o <<"-">>
    \o ZeroPad(d.day, 2) \o <<sep>>
    \o FormatTime(d.hour, d.minute, d.second, d.microsecond)
    \o FormatOffset(d.utcoffset)

_format_datetime(date_time) == <<"\"">> \o isoformat(date_time, " ") \o <<"\"">>

\* the date-time values formatted
DateTimes ==
    [year : {987, 2024}, month : {1, 12}, day : {1, 31}, hour : {0, 23},
     minute : {0, 59}, second : {0, 59},
     microsecond : {0, 1, 123456, 999999},
     utcoffset : {<<>>, <<0>>, <<60>>, <<-330>>}]

Epoch ==
    [year |-> 1970, month |-> 1, day |-> 1, hour |-> 0, minute |-> 0,
     second |-> 0, microsecond |-> 0, utcoffset |-> <<>>]

---------------------------------------------------------------------------
(* State *)

NoCall ==
    [op |-> "none", self |-> None, kwargs |-> EmptyDict, settings |-> EmptyDict,
     cs_dict |-> EmptyDict, result |-> None, missing |-> {}]

NoFmt == [done |-> FALSE, date_time |-> Epoch, out |-> <<>>]

\* ElasticDriver.__init__, for each instance; the class body for the dict
Init ==
    /\ _CONNECT_DEFAULTS = ClassBodyDefaults
    /\ settings \in StoredSettings
    /\ service = [i \in Instances |-> None]
    /\ _connected = [i \in Instances |-> FALSE]
    /\ _loaded = [i \in Instances |-> TRUE]
    /\ call = NoCall
    /\ connect_ok = {}
    /\ fmt = NoFmt

\* ElasticDriver.connect: _get_connect_args, the filter to arg_dict (a local,
\* dropped on return), print("connected"); nothing is assigned to self
connect(self, kwargs) ==
    LET r == _get_connect_args(_CONNECT_DEFAULTS, _get_config_settings, kwargs)
    IN  /\ _CONNECT_DEFAULTS' = r.cs_dict
        /\ call' = [op |-> "connect", self |-> self, kwargs |-> kwargs,
                    settings |-> settings, cs_dict |-> r.cs_dict,
                    result |-> r.result, missing |-> r.missing]
        /\ connect_ok' =
             IF r.result = "ok" THEN connect_ok \cup {self} ELSE connect_ok
        /\ UNCHANGED <<settings, service, _connected, _loaded, fmt>>

\* ElasticDriver.query: return None, whatever the arguments and the state
query(self, q) ==
    /\ call' = [op |-> "query", self |-> self, kwargs |-> EmptyDict,
                settings |-> EmptyDict, cs_dict |-> EmptyDict,
                result |-> None, missing |-> {}]
    /\ UNCHANGED <<_CONNECT_DEFAULTS, settings, service, _connected, _loaded,
                   connect_ok, fmt>>

\* the settings store is edited between two calls (msticpyconfig.yaml)
SetSettings(s) ==
    /\ s # settings
    /\ settings' = s
    /\ UNCHANGED <<_CONNECT_DEFAULTS, service, _connected, _loaded, call,
                   connect_ok, fmt>>

Next ==
    \/ \E self \in Instances, kwargs \in Overrides : connect(self, kwargs)
    \/ \E self \in Instances, q \in Queries : query(self, q)
    \/ \E s \in StoredSettings : SetSettings(s)

Spec == Init /\ [][Next]_vars

---------------------------------------------------------------------------
(* The formatter on its own: Init draws the date-time, the one action      *)
(* applies _format_datetime to it                                          *)

InitFmt ==
    /\ _CONNECT_DEFAULTS = ClassBodyDefaults
    /\ settings = EmptyDict
    /\ service = [i \in Instances |-> None]
    /\ _connected = [i \in Instances |-> FALSE]
    /\ _loaded = [i \in Instances |-> TRUE]
    /\ call = NoCall
    /\ connect_ok = {}
    /\ fmt \in {[done |-> FALSE, date_time |-> d, out |-> <<>>] : d \in DateTimes}

FormatDatetime ==
    /\ ~fmt.done
    /\ fmt' = [fmt EXCEPT !.done = TRUE, !.out = _format_datetime(fmt.date_time)]
    /\ UNCHANGED <<_CONNECT_DEFAULTS, settings, service, _connected, _loaded,
                   call, connect_ok>>

NextFmt == FormatDatetime

SpecFmt == InitFmt /\ [][NextFmt]_vars

---------------------------------------------------------------------------
(* Properties *)

\* the merge the specification describes for a call c: the class body's
\* defaults, then the stored settings as they were at c, then c's overrides
IntendedMerge(c) == Update(Update(ClassBodyDefaults, c.settings), c.kwargs)

\* a step that is a connect() call
ConnectStep == call'.op = "connect" /\ call' # call

\* how many of the three levels supply key k in call c
Levels(k, c) ==
    Cardinality({l \in {"override", "stored", "default"} :
        \/ l = "override" /\ k \in DOMAIN c.kwargs
        \/ l = "stored" /\ k \in DOMAIN c.settings
        \/ l = "default" /\ k \in DOMAIN ClassBodyDefaults})

ByPrecedence(k, c) ==
    IF k \in DOMAIN c.kwargs THEN c.kwargs[k]
    ELSE IF k \in DOMAIN c.settings THEN c.settings[k]
    ELSE ClassBodyDefaults[k]

(* C1: a connect() call whose merge of the fixed defaults, the stored      *)
(* settings as they are at the call and the call's overrides lacks a       *)
(* required key fails with the configuration error, and the keys it names  *)
(* are exactly the required keys absent from that merge.  (Stated for      *)
(* merges of recognized keys only: with an unrecognized key the allow-list *)
(* check of C4 comes first.)                                               *)
C1_MissingRequiredRejected ==
    (/\ call.op = "connect"
     /\ DOMAIN IntendedMerge(call) \subseteq ELASTIC_CONNECT_ARGS
     /\ _ELASTIC_REQD_ARGS \ DOMAIN IntendedMerge(call) # {})
    => /\ call.result = "MsticpyUserConfigError"
       /\ call.missing = _ELASTIC_REQD_ARGS \ DOMAIN IntendedMerge(call)

(* C2: at the start of every connect() call, whatever calls were made      *)
(* before on any instance, the mapping the consolidation starts from is    *)
(* {port: 9200, use_ssl: true, verify_certs: true}.                        *)
C2_DefaultsFixed ==
    [][ConnectStep => _CONNECT_DEFAULTS = ClassBodyDefaults]_vars

(* C3: when the stored settings changed between two connect() calls, the   *)
(* consolidated arguments of the second hold, for a key the second call    *)
(* does not override, no value that was present only in the settings at    *)
(* the first call (not in the settings now, not a default, and not an      *)
(* override of the first call).                                            *)
C3_NoStaleSetting ==
    [][(/\ ConnectStep
        /\ call.op = "connect"
        /\ call.settings # settings)
       => \A k \in DOMAIN call'.cs_dict \ DOMAIN call'.kwargs :
            ~(/\ k \in DOMAIN call.settings \ DOMAIN call.kwargs
              /\ call'.cs_dict[k] = call.settings[k]
              /\ ~(k \in DOMAIN settings /\ settings[k] = call'.cs_dict[k])
              /\ ~(/\ k \in DOMAIN ClassBodyDefaults
                   /\ ClassBodyDefaults[k] = call'.cs_dict[k]))]_vars

(* C4: a connect() call whose consolidated mapping holds a key outside the *)
(* six recognized options fails with the unrecognized-argument error,      *)
(* whether or not the required keys are present.                           *)
C4_UnrecognizedRejected ==
    (/\ call.op = "connect"
     /\ \/ ~(DOMAIN call.cs_dict \subseteq ELASTIC_CONNECT_ARGS)
        \/ ~(DOMAIN IntendedMerge(call) \subseteq ELASTIC_CONNECT_ARGS))
    => call.result = "UnrecognizedArgumentError"

\* an unrecognized override in a call that also lacks a required key
C4_Witness ==
    /\ call.op = "connect"
    /\ "timeout" \in DOMAIN call.kwargs
    /\ _ELASTIC_REQD_ARGS \ DOMAIN call.cs_dict # {}
    /\ call.result = "UnrecognizedArgumentError"

(* C5: in every connect() call, a recognized key supplied at more than one *)
(* level gets the call's override if there is one, otherwise the stored    *)
(* setting if there is one, otherwise the default.                         *)
C5_Precedence ==
    call.op = "connect"
    => \A k \in ELASTIC_CONNECT_ARGS :
         Levels(k, call) >= 2
         => /\ k \in DOMAIN call.cs_dict
            /\ call.cs_dict[k] = ByPrecedence(k, call)

\* override port 9300 over stored port 9400 (and default 9200)
C5_Witness ==
    /\ call.op = "connect"
    /\ call.kwargs = [port |-> 9300]
    /\ call.settings = StoredVal
    /\ call.result = "ok"
    /\ call.cs_dict.port = 9300

(* C6: query() on an instance on which no connect() call has yet returned  *)
(* without an error fails with the not-connected error.                    *)
C6_QueryNeedsConnect ==
    (call.op = "query" /\ call.self \notin connect_ok)
    => call.result = "MsticpyNotConnectedError"

(* C7: when connect() returns without raising, the instance holds a        *)
(* session handle and its connected flag is true; the flag is true only    *)
(* with a session.                                                         *)
C7_ConnectedAfterConnect ==
    /\ (call.op = "connect" /\ call.result = "ok")
       => (service[call.self] # None /\ _connected[call.self])
    /\ \A i \in Instances : _connected[i] => service[i] # None

(* C8: host defaults to "localhost": a connect() call in which neither the *)
(* stored settings nor the overrides supply host, while username and       *)
(* password are supplied and every key is recognized, consolidates         *)
(* host = "localhost" and is not rejected.                                 *)
C8_HostDefault ==
    (/\ call.op = "connect"
     /\ "host" \notin DOMAIN call.settings \cup DOMAIN call.kwargs
     /\ {"username", "password"} \subseteq DOMAIN IntendedMerge(call)
     /\ DOMAIN IntendedMerge(call) \subseteq ELASTIC_CONNECT_ARGS)
    => /\ call.result = "ok"
       /\ "host" \in DOMAIN call.cs_dict
       /\ call.cs_dict["host"] = "localhost"

IsDigit(c) == \E i \in 1..10 : DigitChars[i] = c

\* "YYYY-MM-DD HH:MM:SS.ffffff" between two double quotes; D marks a digit
ExactForm ==
    <<"\"", "D", "D", "D", "D", "-", "D", "D", "-", "D", "D", " ",
      "D", "D", ":", "D", "D", ":", "D", "D", ".",
      "D", "D", "D", "D", "D", "D", "\"">>

HasExactForm(out) ==
    /\ Len(out) = Len(ExactForm)
    /\ \A i \in 1..Len(ExactForm) :
         IF ExactForm[i] = "D" THEN IsDigit(out[i]) ELSE out[i] = ExactForm[i]

(* C9: _format_datetime of a date-time value, one with a zero microsecond  *)
(* field included, is a double quote, YYYY-MM-DD, one space, HH:MM:SS, a   *)
(* point and six digits, a double quote.  (Stated for naive values, those  *)
(* with no UTC offset.)                                                    *)
C9_ExactForm ==
    (fmt.done /\ fmt.date_time.utcoffset = <<>>) => HasExactForm(fmt.out)

(* C10: a connect() call that fails leaves no trace: any later connect()   *)
(* call, with any stored settings and any overrides, ends the same way     *)
(* with the same consolidated arguments as it would have without the       *)
(* failed call.                                                            *)
C10_FailedConnectNoTrace ==
    [][(ConnectStep /\ call'.result # "ok")
       => \A s \in StoredSettings, kw \in Overrides :
            _get_connect_args(_CONNECT_DEFAULTS', s, kw)
            = _get_connect_args(_CONNECT_DEFAULTS, s, kw)]_vars

===========================================================================
